---- MODULE Spec2Model ----
(***************************************************************************)
(* The scheduled YouTube monitor job (src/src/main.py) with its JSON data  *)
(* store (src/src/data_store.py) and the Gemini summarizer                 *)
(* (src/src/ai_summarizer.py).                                             *)
(*                                                                         *)
(* Spec        : runs of main(), one after the other, on one data          *)
(*               directory.                                                *)
(* SpecFair    : Spec with the fairness of a synchronous batch job: a run  *)
(*               that has started keeps executing.                         *)
(* SpecSummary : one call of AISummarizer.generate_summary.                *)
(* SpecStartup : main() from its start through channel selection to test   *)
(*               mode or the loop over the channels.                       *)
(* SpecFetch   : one call of TranscriptFetcher.fetch_transcript, of        *)
(*               DownSubFetcher.fetch_transcript, _get_subtitle_info or    *)
(*               _select_best_subtitle.                                    *)
(* SpecStore   : one call of DataStore.mark_video_processed on a data      *)
(*               directory left by earlier runs, and reads of the list.    *)
(* SpecTranscripts  : calls of DataStore.save_transcript and               *)
(*               get_transcript on a new data directory.                   *)
(* SpecLatestVideos : one call of YouTubeClient.get_latest_videos.         *)
(* SpecOverlap : two runs of main() at the same time on one data           *)
(*               directory, interleaved between the load and the save of   *)
(*               mark_video_processed.                                     *)
(***************************************************************************)
EXTENDS Integers, Sequences, FiniteSets, TLC

\* ------------------------------------------------------------------ bounds
MaxRuns == 2
NumVideos == 2
\* transcripts of one kind listed for a video
MaxTracks == 2
\* calls of save_transcript on one data directory
MaxSaves == 2

\* --------------------------------------------------------------- constants
\* generate_summary(..., max_retries: int = 3)
DEFAULT_MAX_RETRIES == 3
\* get_latest_videos(channel_id, max_results=10) in normal mode
NORMAL_MAX_RESULTS == 10
\* get_latest_videos(channel_id, max_results=1) in GET_LATEST mode
LATEST_MAX_RESULTS == 1
\* 'summary': summary[:1000]
SUMMARY_LIMIT == 1000

Videos == 1..NumVideos
Channels == {"c1", "c2"}
\* an entry of CHANNELS_TO_MONITOR that strips to the empty string
Blank == " "

\* channels_to_monitor after channel resolution: the resolved target channel
\* alone, or the comma-separated list, which may hold blank entries
ChannelLists == {<<"c1">>, <<"c1", "c2">>, <<"c2", Blank, "c1">>}

VARIABLES
  runs,              \* number of runs of main() started so far
  pc,                \* position of the current run in main / process_channel
  config,            \* the config dict of the current run (a local of main)
  idx,               \* index of the for loop over channels_to_monitor
  file,              \* data/processed_videos.json: channel -> list of records
  clock,             \* datetime.now(), as a logical time
  transcripts,       \* data/transcripts/<channel>/<video>.json that exist
  latest_videos,     \* process_channel: the listing of the current channel
  processed_video_ids, \* process_channel: ids loaded from the processed list
  videos_to_process, \* process_channel: videos still to be handled
  new_videos_count,  \* process_channel: result['new_videos_count']
  all_results,       \* main: all_results
  total_new_videos,  \* main: total_new_videos
  summary_file,      \* data/last_run_summary.json
  summary_emails,    \* calls of send_summary_email in the current run
  notified,          \* notification emails sent, per channel and video
  log,               \* the calls made while handling videos in the current run
  oracle,            \* what the providers hold for the video being handled
  max_retries, transcript, script, attempt, calls, sleeps, spc, summary,
                     \* generate_summary: arguments, model outcomes, locals
  call,              \* a call studied on its own: the function, its arguments
                     \* and what the libraries and services it uses answer
  upc,               \* position of that call
  outcome,           \* what that call returned or raised
  trace,             \* the calls that call made, in order
  transcript_files,  \* data/transcripts/<channel>/<video>.json: their contents
  run_state          \* two runs on one data directory: where each of them is
                     \* and the locals of its call of mark_video_processed

jobVars == <<runs, pc, config, idx, file, clock, transcripts, latest_videos,
             processed_video_ids, videos_to_process, new_videos_count,
             all_results, total_new_videos, summary_file, summary_emails,
             notified, log, oracle>>
sumVars == <<max_retries, transcript, script, attempt, calls, sleeps, spc, summary>>
unitVars == <<call, upc, outcome, trace>>
storeVars == <<transcript_files, run_state>>
vars == <<jobVars, sumVars, unitVars, storeVars>>

\* ------------------------------------------------------------- sequences
Take(s, n) == SubSeq(s, 1, IF n < Len(s) THEN n ELSE Len(s))

Range(s) == {s[i] : i \in 1..Len(s)}

\* sequences of pairwise distinct videos: what a playlist listing can hold
DistinctSeqs ==
  UNION {{s \in [1..n -> Videos] : \A i, j \in 1..n : i # j => s[i] # s[j]}
         : n \in 0..NumVideos}

\* an Optional value: a value, or None
Some(v) == [some |-> TRUE, value |-> v]

None(v) == [some |-> FALSE, value |-> v]

\* ------------------------------------------------------------ data store
\* a text of n characters, each character standing for its position
Text(n) == [i \in 1..n |-> i]

\* mark_video_processed, line 59: summary[:1000]
Truncated(text) == Take(text, SUMMARY_LIMIT)

Ids(records) == {records[i].video_id : i \in 1..Len(records)}

NoRecords == [c \in Channels |-> <<>>]

\* _load_processed_videos: the file's content, or {} when the file is missing
\* or cannot be opened or parsed (readable = FALSE)
_load_processed_videos(f, readable) == IF readable THEN f ELSE NoRecords

\* list.sort(key=processed_at, reverse=True): stable, newest first
RECURSIVE InsertDesc(_, _)
InsertDesc(r, s) ==
  IF s = <<>> THEN <<r>>
  ELSE IF Head(s).processed_at < r.processed_at THEN <<r>> \o s
       ELSE <<Head(s)>> \o InsertDesc(r, Tail(s))

RECURSIVE SortDesc(_)
SortDesc(s) ==
  IF s = <<>> THEN <<>>
  ELSE InsertDesc(s[Len(s)], SortDesc(SubSeq(s, 1, Len(s) - 1)))

get_processed_videos(f, readable, ch) ==
  SortDesc(_load_processed_videos(f, readable)[ch])

\* _save_processed_videos: writes the dict, or logs the error and leaves the
\* file as it was (writable = FALSE)
_save_processed_videos(f, data, writable) == IF writable THEN data ELSE f

mark_video_processed(f, readable, writable, ch, vid, text, email_sent, now) ==
  LET all_videos == _load_processed_videos(f, readable)
      processed_record == [video_id |-> vid, email_sent |-> email_sent,
                           processed_at |-> now, summary |-> Truncated(text)]
  IN _save_processed_videos(
       f, [all_videos EXCEPT ![ch] = Append(@, processed_record)], writable)

\* json.dump of a str, or of None: a JSON string, or null
json_dump(v) ==
  IF v.some THEN [json |-> "string", value |-> v.value]
  ELSE [json |-> "null", value |-> ""]

\* json.load of a JSON string or of null: the str, or None
json_load(j) == IF j.json = "null" THEN None("") ELSE Some(j.value)

\* save_transcript, lines 82-88: transcript_data
transcript_data(ch, vid, text, language, now) ==
  [video_id |-> vid, channel_id |-> ch, language |-> language,
   transcript |-> text, saved_at |-> now]

\* json.dump(transcript_data, f): language is a str or None, the other
\* values are strs
dump_document(d) ==
  [video_id |-> json_dump(Some(d.video_id)),
   channel_id |-> json_dump(Some(d.channel_id)),
   language |-> json_dump(d.language),
   transcript |-> json_dump(Some(d.transcript)),
   saved_at |-> json_dump(Some(d.saved_at))]

\* json.load(f) of such a file: the dict
load_document(j) ==
  [video_id |-> json_load(j.video_id).value,
   channel_id |-> json_load(j.channel_id).value,
   language |-> json_load(j.language),
   transcript |-> json_load(j.transcript).value,
   saved_at |-> json_load(j.saved_at).value]

NoDocument == transcript_data("", 0, <<>>, None(""), 0)

\* a file that does not exist
NoFile == [exists |-> FALSE, complete |-> FALSE, json |-> dump_document(NoDocument)]

\* a file holding a whole JSON document, and one whose writing broke off
WholeFile(d) == [exists |-> TRUE, complete |-> TRUE, json |-> dump_document(d)]

BrokenFile(d) == [exists |-> TRUE, complete |-> FALSE, json |-> dump_document(d)]

\* data/transcripts as DataStore.__init__ makes it: no file in it
NoTranscriptFiles == [p \in Channels \X Videos |-> NoFile]

\* line 80: transcripts_dir / channel_id / f"{video_id}.json"
transcript_file_by_video(ch, vid) == <<"c1", vid>>

transcript_file(ch, vid) == <<ch, vid>>

\* what the file system does during save_transcript: all goes well, mkdir
\* or open raises (the file is untouched), or open(..., 'w') has emptied the
\* file and json.dump raises while writing
SaveRuns == {"ok", "open raises", "dump raises"}

\* save_transcript, lines 72-93: nothing is caught
save_transcript(files, ch, vid, text, language, now, run) ==
  LET d == transcript_data(ch, vid, text, language, now)
      at == transcript_file(ch, vid)
  IN CASE run = "ok" ->
            [files |-> [files EXCEPT ![at] = WholeFile(d)], raised |-> "none"]
       [] run = "dump raises" ->
            [files |-> [files EXCEPT ![at] = BrokenFile(d)], raised |-> "OSError"]
       [] OTHER -> [files |-> files, raised |-> "OSError"]

\* get_transcript, lines 95-107: None when there is no file, and when the
\* file cannot be opened (readable = FALSE) or holds no whole JSON document
get_transcript(files, ch, vid, readable) ==
  LET f == files[transcript_file(ch, vid)]
  IN IF ~f.exists THEN None(NoDocument)
     ELSE IF readable /\ f.complete THEN Some(load_document(f.json))
     ELSE None(NoDocument)

\* ------------------------------------------------------- name resolution
\* Names bound at module level in main.py: the imports, logger and the three
\* functions. config and downsub_fetcher are assigned inside main() only.
ModuleGlobalsWithMainLocals ==
  {"os", "sys", "json", "logging", "datetime", "timezone", "Path",
   "YouTubeClient", "TranscriptFetcher", "DownSubFetcher", "AISummarizer",
   "EmailSender", "DataStore", "logger", "main", "process_channel",
   "test_components", "config", "downsub_fetcher"}

ModuleGlobals ==
  {"os", "sys", "json", "logging", "datetime", "timezone", "Path",
   "YouTubeClient", "TranscriptFetcher", "DownSubFetcher", "AISummarizer",
   "EmailSender", "DataStore", "logger", "main", "process_channel",
   "test_components"}

\* parameters and assigned names of process_channel
ProcessChannelLocals ==
  {"channel_id", "youtube_client", "transcript_fetcher", "ai_summarizer",
   "email_sender", "data_store", "recipient_email", "get_latest_only",
   "result", "channel_info", "latest_videos", "videos_to_process",
   "processed_videos", "processed_video_ids", "video", "transcript",
   "language", "transcript_source", "basic_summary", "email_sent", "summary",
   "source_note"}

\* a name used in process_channel is looked up among its locals, then among
\* the module's globals; otherwise the use raises NameError
Resolves(name) == name \in ProcessChannelLocals \cup ModuleGlobals

\* main: "except Exception as e" around the call of process_channel
CaughtByMainOnlyHttpError(exc) == exc = "HttpError"

CaughtByMain(exc) == exc \in {"NameError", "OSError", "HttpError", "Exception"}

\* ------------------------------------------------------ external outcomes
\* DownSubFetcher.fetch_transcript as seen by its caller
DownSubOutcomes == {"text", "none", "raise"}
\* YouTubeTranscriptApi inside TranscriptFetcher.fetch_transcript: a text, no
\* transcript, or the except clause that ends the try block: disabled for
\* "except TranscriptsDisabled", unavailable for "except VideoUnavailable" and
\* "except TooManyRequests", error for "except Exception" (see Handler for
\* the clause an exception reaches)
ApiOutcomes == {"text", "none", "disabled", "unavailable", "error"}
\* _fetch_with_ytdlp
YtdlpOutcomes == {"text", "none"}

\* TranscriptFetcher.fetch_transcript: yt-dlp is the fallback when transcripts
\* are disabled and on an unexpected error
TriesYtdlp(api) == api \in {"disabled", "error"}

\* what the providers hold for one video; yt-dlp's answer counts only where
\* yt-dlp is asked
Oracles ==
  {o \in [downsub : DownSubOutcomes, api : ApiOutcomes, ytdlp : YtdlpOutcomes] :
     ~TriesYtdlp(o.api) => o.ytdlp = "none"}

TranscriptFetcherResult(o) ==
  IF o.api = "text" THEN "text"
  ELSE IF TriesYtdlp(o.api) THEN o.ytdlp
  ELSE "none"

\* EmailSender.send_video_notification and send_summary_email report success
\* as a boolean
send_video_notification_results == BOOLEAN
send_summary_email_results == BOOLEAN

\* AISummarizer.generate_summary on a non-empty transcript returns the model's
\* text or the fallback summary
SummaryResults == {"ai", "fallback"}

\* lines 256-269: the notification text of a video without transcript
basic_summary == Text(1)

\* lines 303-310: the summary with the note on the transcript's source
SummaryText(kind) == IF kind = "ai" THEN Text(2) ELSE Text(3)

\* the rest of the environment of one pass through the loop body
Environments ==
  [save_ok : BOOLEAN, summary : SummaryResults,
   sent : send_video_notification_results,
   readable : BOOLEAN, writable : BOOLEAN]

\* --------------------------------------------------- process_channel body
\* a call made for a video; already: its id is in the processed list then
Event(op, ch, vid, f) ==
  [op |-> op, ch |-> ch, vid |-> vid, already |-> vid \in Ids(f[ch])]

\* the fetcher object main passes as process_channel's transcript_fetcher
PassedFetcher(use_downsub) == IF use_downsub THEN "downsub" ELSE "ytapi"

\* lines 218-244: the calls made to obtain the transcript, in order
FetchCalls(ch, vid, f, o, use_downsub) ==
  LET first == IF use_downsub /\ Resolves("downsub_fetcher")
               THEN <<Event("fetch_downsub", ch, vid, f)>> ELSE <<>>
      got1 == first # <<>> /\ o.downsub = "text"
      second ==
        IF got1 THEN <<>>
        ELSE IF PassedFetcher(use_downsub) = "downsub"
             THEN <<Event("fetch_downsub", ch, vid, f)>>
             ELSE <<Event("fetch_api", ch, vid, f)>>
                  \o (IF o.api # "text" /\ TriesYtdlp(o.api)
                      THEN <<Event("fetch_ytdlp", ch, vid, f)>> ELSE <<>>)
  IN first \o second

\* lines 218-244: whether a transcript was obtained
TranscriptObtained(o, use_downsub) ==
  \/ use_downsub /\ Resolves("downsub_fetcher") /\ o.downsub = "text"
  \/ IF PassedFetcher(use_downsub) = "downsub"
     THEN o.downsub = "text"
     ELSE TranscriptFetcherResult(o) = "text"

\* lines 218-337 for one video: the state after the pass and whether it raised
LoopBody(ch, vid, o, e, cfg, f, now, ts, nt, count) ==
  LET fetches == FetchCalls(ch, vid, f, o, cfg.use_downsub)
      ev(op) == Event(op, ch, vid, f)
      text == IF TranscriptObtained(o, cfg.use_downsub)
              THEN SummaryText(e.summary) ELSE basic_summary
      marked == IF cfg.get_latest THEN f
                ELSE mark_video_processed(f, e.readable, e.writable, ch, vid,
                                          text, e.sent, now)
      markEv == IF cfg.get_latest THEN <<>> ELSE <<ev("mark_video_processed")>>
      sentTo == IF e.sent THEN [nt EXCEPT ![ch][vid] = @ + 1] ELSE nt
  IN IF ~TranscriptObtained(o, cfg.use_downsub)
     THEN [raised |-> "none", file |-> marked, clock |-> now + 1,
           transcripts |-> ts, notified |-> sentTo, count |-> count + 1,
           log |-> fetches \o <<ev("send_video_notification")>> \o markEv]
     ELSE IF ~e.save_ok
     THEN [raised |-> "OSError", file |-> f, clock |-> now,
           transcripts |-> ts, notified |-> nt, count |-> count,
           log |-> fetches \o <<ev("save_transcript")>>]
     ELSE [raised |-> "none", file |-> marked, clock |-> now + 1,
           transcripts |-> ts \cup {<<ch, vid>>}, notified |-> sentTo,
           count |-> count + 1,
           log |-> fetches \o <<ev("save_transcript"), ev("generate_summary"),
                                ev("send_video_notification")>> \o markEv]

\* ---------------------------------------------------------------- the job
\* processed_videos.json as earlier runs left it: per channel, records of the
\* videos 1..k, oldest first, each id once
RecordsUpTo(k) ==
  [i \in 1..k |-> [video_id |-> i, email_sent |-> TRUE, processed_at |-> i,
                   summary |-> Text(1)]]

InitialFiles == [Channels -> {RecordsUpTo(k) : k \in 0..NumVideos}]

NoSummary == [run |-> 0, total_new_videos |-> 0, channels_processed |-> 0]

NoOracle == [downsub |-> "unset", api |-> "unset", ytdlp |-> "unset"]

\* no call is studied on its own
NoCall == [fn |-> "none"]

\* the contents of the transcript files are not followed, and there is no
\* second run on the data directory
InitStoreIdle ==
  /\ transcript_files = <<>>
  /\ run_state = <<>>

InitUnitIdle ==
  /\ call = NoCall
  /\ upc = "idle"
  /\ outcome = "unset"
  /\ trace = <<>>

InitSummarizerIdle ==
  /\ max_retries = DEFAULT_MAX_RETRIES
  /\ transcript = ""
  /\ script = <<>>
  /\ attempt = 0
  /\ calls = 0
  /\ sleeps = <<>>
  /\ spc = "idle"
  /\ summary = "unset"

Init ==
  /\ runs = 0
  /\ pc = "idle"
  /\ config = [get_latest |-> FALSE, use_downsub |-> TRUE, channels |-> <<>>]
  /\ idx = 1
  /\ file \in InitialFiles
  /\ clock = NumVideos + 1
  /\ transcripts = {}
  /\ latest_videos = <<>>
  /\ processed_video_ids = {}
  /\ videos_to_process = <<>>
  /\ new_videos_count = 0
  /\ all_results = <<>>
  /\ total_new_videos = 0
  /\ summary_file = NoSummary
  /\ summary_emails = 0
  /\ notified = [c \in Channels |-> [v \in Videos |-> 0]]
  /\ log = <<>>
  /\ oracle = NoOracle
  /\ InitSummarizerIdle
  /\ InitUnitIdle
  /\ InitStoreIdle

\* main, lines 30-94: a run that passed validation and channel resolution
\* and is not in test mode
StartRunIn(modes) ==
  /\ pc \in {"idle", "crashed"}
  /\ runs < MaxRuns
  /\ runs' = runs + 1
  /\ \E gl \in modes, ds \in BOOLEAN, chans \in ChannelLists :
       config' = [get_latest |-> gl, use_downsub |-> ds, channels |-> chans]
  /\ idx' = 1
  /\ pc' = "for_channel"
  /\ all_results' = <<>>
  /\ total_new_videos' = 0
  /\ summary_emails' = 0
  /\ log' = <<>>
  /\ oracle' = NoOracle
  /\ latest_videos' = <<>>
  /\ processed_video_ids' = {}
  /\ videos_to_process' = <<>>
  /\ new_videos_count' = 0
  /\ UNCHANGED <<file, clock, transcripts, summary_file, notified, sumVars,
                 unitVars, storeVars>>

\* a run with GET_LATEST on or off
StartRun == StartRunIn(BOOLEAN)

\* a run with GET_LATEST off
StartNormalRun == StartRunIn({FALSE})

\* main, lines 97-98: "if not channel_id.strip(): continue"
SkipBlankChannel ==
  /\ pc = "for_channel"
  /\ idx <= Len(config.channels)
  /\ config.channels[idx] = Blank
  /\ idx' = idx + 1
  /\ UNCHANGED <<runs, pc, config, file, clock, transcripts, latest_videos,
                 processed_video_ids, videos_to_process, new_videos_count,
                 all_results, total_new_videos, summary_file, summary_emails,
                 notified, log, oracle, sumVars, unitVars, storeVars>>

\* main, lines 100-115 and process_channel, lines 168-174
CallProcessChannel ==
  /\ pc = "for_channel"
  /\ idx <= Len(config.channels)
  /\ config.channels[idx] # Blank
  /\ pc' = "channel_info"
  /\ new_videos_count' = 0
  /\ oracle' = NoOracle
  /\ latest_videos' = <<>>
  /\ processed_video_ids' = {}
  /\ videos_to_process' = <<>>
  /\ UNCHANGED <<runs, config, idx, file, clock, transcripts, all_results,
                 total_new_videos, summary_file, summary_emails, notified,
                 log, sumVars, unitVars, storeVars>>

\* main, line 118: total_new_videos += result['new_videos_count']
AddToTotalOneEach(total, result) == total + 1

AddToTotal(total, result) == total + result.new_videos_count

\* main, lines 117-118: process_channel returned result
Returned(result) ==
  /\ all_results' = Append(all_results, result)
  /\ total_new_videos' = AddToTotal(total_new_videos, result)
  /\ idx' = idx + 1
  /\ pc' = "for_channel"

\* main, lines 120-126, with the error logged but no result appended
RaisedNotRecorded(exc) ==
  /\ idx' = idx + 1
  /\ pc' = "for_channel"
  /\ UNCHANGED <<all_results, total_new_videos>>

\* main, lines 120-126: process_channel raised exc
Raised(exc) ==
  IF CaughtByMain(exc)
  THEN /\ all_results' = Append(all_results,
            [channel_id |-> config.channels[idx], new_videos_count |-> 0,
             error |-> exc])
       /\ idx' = idx + 1
       /\ pc' = "for_channel"
       /\ UNCHANGED total_new_videos
  ELSE /\ pc' = "crashed"
       /\ UNCHANGED <<all_results, total_new_videos, idx>>

\* process_channel, lines 176-183
GetChannelInfo ==
  /\ pc = "channel_info"
  /\ \E found \in BOOLEAN :
       IF found
       THEN /\ pc' = "list"
            /\ UNCHANGED <<all_results, total_new_videos, idx>>
       ELSE Returned([channel_id |-> config.channels[idx],
                      new_videos_count |-> new_videos_count,
                      error |-> "Channel not found"])
  /\ UNCHANGED <<runs, config, file, clock, transcripts, latest_videos,
                 processed_video_ids, videos_to_process, new_videos_count,
                 summary_file, summary_emails, notified, log, oracle,
                 sumVars, unitVars, storeVars>>

\* YouTubeClient.get_latest_videos: at most max_results items of the uploads
\* playlist, newest first ([] when an API call fails)
get_latest_videos(uploads, max_results) == Take(uploads, max_results)

\* process_channel, lines 206-212, without "if video['id'] in
\* processed_video_ids: continue"
SelectAll(latest, processed_ids) == latest

\* process_channel, lines 206-212: filter out already processed videos
Unprocessed(latest, processed_ids) ==
  SelectSeq(latest, LAMBDA v : v \notin processed_ids)

\* process_channel, lines 185-212
ListVideos ==
  /\ pc = "list"
  /\ \E uploads \in DistinctSeqs, readable \in BOOLEAN :
       IF config.get_latest
       THEN LET latest == get_latest_videos(uploads, LATEST_MAX_RESULTS)
            IN /\ latest_videos' = latest
               /\ processed_video_ids' = {}
               /\ videos_to_process' = latest
               /\ IF latest = <<>>
                  THEN Returned([channel_id |-> config.channels[idx],
                                 new_videos_count |-> new_videos_count,
                                 error |-> "none"])
                  ELSE /\ pc' = "videos"
                       /\ UNCHANGED <<all_results, total_new_videos, idx>>
       ELSE LET ids == Ids(get_processed_videos(file, readable,
                                                config.channels[idx]))
                latest == get_latest_videos(uploads, NORMAL_MAX_RESULTS)
            IN /\ latest_videos' = latest
               /\ processed_video_ids' = ids
               /\ videos_to_process' = Unprocessed(latest, ids)
               /\ pc' = "videos"
               /\ UNCHANGED <<all_results, total_new_videos, idx>>
  /\ UNCHANGED <<runs, config, file, clock, transcripts, new_videos_count,
                 summary_file, summary_emails, notified, log, oracle,
                 sumVars, unitVars, storeVars>>

\* process_channel, line 215 with no video left, and line 339
ReturnResult ==
  /\ pc = "videos"
  /\ videos_to_process = <<>>
  /\ Returned([channel_id |-> config.channels[idx],
               new_videos_count |-> new_videos_count, error |-> "none"])
  /\ UNCHANGED <<runs, config, file, clock, transcripts, latest_videos,
                 processed_video_ids, videos_to_process, new_videos_count,
                 summary_file, summary_emails, notified, log, oracle,
                 sumVars, unitVars, storeVars>>

\* process_channel, lines 215-337: one pass through the loop over
\* videos_to_process. Line 222 reads config, which is no name of
\* process_channel or of the module: the lookup raises NameError outside any
\* try block, so the pass ends there and the error leaves process_channel.
HandleVideo ==
  /\ pc = "videos"
  /\ videos_to_process # <<>>
  /\ \E o \in Oracles :
       LET ch == config.channels[idx]
           video == Head(videos_to_process)
           entered == Append(log, Event("enter", ch, video, file))
       IN /\ oracle' = o
          /\ IF ~Resolves("config")
             THEN /\ log' = Append(entered, Event("NameError", ch, video, file))
                  /\ Raised("NameError")
                  /\ UNCHANGED <<file, clock, transcripts, notified,
                                 new_videos_count, videos_to_process>>
             ELSE \E e \in Environments :
                    LET after == LoopBody(ch, video, o, e, config, file, clock,
                                          transcripts, notified,
                                          new_videos_count)
                    IN /\ log' = entered \o after.log
                       /\ file' = after.file
                       /\ clock' = after.clock
                       /\ transcripts' = after.transcripts
                       /\ notified' = after.notified
                       /\ new_videos_count' = after.count
                       /\ IF after.raised = "none"
                          THEN /\ videos_to_process' = Tail(videos_to_process)
                               /\ UNCHANGED <<pc, all_results,
                                              total_new_videos, idx>>
                          ELSE /\ Raised(after.raised)
                               /\ UNCHANGED videos_to_process
  /\ UNCHANGED <<runs, config, latest_videos, processed_video_ids,
                 summary_file, summary_emails, sumVars, unitVars, storeVars>>

\* main, lines 128-149: write data/last_run_summary.json
WriteSummary ==
  /\ pc = "for_channel"
  /\ idx > Len(config.channels)
  /\ summary_file' = [run |-> runs, total_new_videos |-> total_new_videos,
                      channels_processed |-> Len(config.channels)]
  /\ pc' = "send_summary"
  /\ oracle' = NoOracle
  /\ UNCHANGED <<runs, config, idx, file, clock, transcripts, latest_videos,
                 processed_video_ids, videos_to_process, new_videos_count,
                 all_results, total_new_videos, summary_emails, notified, log,
                 sumVars, unitVars, storeVars>>

\* main, lines 151-161: send the summary email, whatever it reports
SendSummaryEmail ==
  /\ pc = "send_summary"
  /\ \E sent \in send_summary_email_results : summary_emails' = summary_emails + 1
  /\ pc' = "idle"
  /\ UNCHANGED <<runs, config, idx, file, clock, transcripts, latest_videos,
                 processed_video_ids, videos_to_process, new_videos_count,
                 all_results, total_new_videos, summary_file, notified, log,
                 oracle, sumVars, unitVars, storeVars>>

\* the steps of a run that has started
RunStep ==
  \/ SkipBlankChannel
  \/ CallProcessChannel
  \/ GetChannelInfo
  \/ ListVideos
  \/ ReturnResult
  \/ HandleVideo
  \/ WriteSummary
  \/ SendSummaryEmail

Next == StartRun \/ RunStep

Spec == Init /\ [][Next]_vars

\* a started run of the synchronous job keeps executing until it ends
SpecFair == Spec /\ WF_vars(RunStep)

\* runs in normal mode only
NextNormal == StartNormalRun \/ RunStep

SpecNormal == Init /\ [][NextNormal]_vars

\* ------------------------------------------------------- generate_summary
\* what one call of model.generate_content does: it raises (or reading the
\* response raises), reports the prompt blocked, returns no text, or text
ModelOutcomes == {"raise", "blocked", "empty", "text"}

RECURSIVE Pow2(_)
Pow2(n) == IF n = 0 THEN 1 ELSE 2 * Pow2(n - 1)

\* "if attempt < max_retries - 1" written as "if attempt < max_retries"
SleepsAfterEvery(att, retries) == att < retries

\* line 102: "if attempt < max_retries - 1": back off before the next attempt
SleepsAfter(att, retries) == att < retries - 1

\* line 103: time.sleep(2 ** attempt)
Backoff(att) == Pow2(att)

InitJobIdle ==
  /\ runs = 0
  /\ pc = "idle"
  /\ config = [get_latest |-> FALSE, use_downsub |-> TRUE, channels |-> <<>>]
  /\ idx = 1
  /\ file = NoRecords
  /\ clock = NumVideos + 1
  /\ transcripts = {}
  /\ latest_videos = <<>>
  /\ processed_video_ids = {}
  /\ videos_to_process = <<>>
  /\ new_videos_count = 0
  /\ all_results = <<>>
  /\ total_new_videos = 0
  /\ summary_file = NoSummary
  /\ summary_emails = 0
  /\ notified = [c \in Channels |-> [v \in Videos |-> 0]]
  /\ log = <<>>
  /\ oracle = NoOracle

\* a call generate_summary(video_info, transcript, max_retries)
InitSummary ==
  /\ InitJobIdle
  /\ InitStoreIdle
  /\ InitUnitIdle
  /\ max_retries \in 0..DEFAULT_MAX_RETRIES
  /\ transcript \in {"", "text"}
  /\ script \in [0..(DEFAULT_MAX_RETRIES - 1) -> ModelOutcomes]
  /\ attempt = 0
  /\ calls = 0
  /\ sleeps = <<>>
  /\ spc = "start"
  /\ summary = "unset"

\* lines 60-71: no transcript, no summary; else build the prompt
S_Start ==
  /\ spc = "start"
  /\ IF transcript = ""
     THEN summary' = "None" /\ spc' = "done"
     ELSE summary' = summary /\ spc' = "loop"
  /\ UNCHANGED <<max_retries, transcript, script, attempt, calls, sleeps,
                 jobVars, unitVars, storeVars>>

\* lines 74-104: one pass of "for attempt in range(max_retries)"
S_Attempt ==
  /\ spc = "loop"
  /\ attempt < max_retries
  /\ calls' = calls + 1
  /\ CASE script[attempt] = "blocked" ->
            summary' = "fallback" /\ spc' = "done" /\ attempt' = attempt
       [] script[attempt] = "text" ->
            summary' = "ai" /\ spc' = "done" /\ attempt' = attempt
       [] script[attempt] = "empty" ->
            summary' = summary /\ spc' = "loop" /\ attempt' = attempt + 1
       [] script[attempt] = "raise" ->
            /\ summary' = summary
            /\ IF SleepsAfter(attempt, max_retries)
               THEN spc' = "sleep" /\ attempt' = attempt
               ELSE spc' = "loop" /\ attempt' = attempt + 1
  /\ UNCHANGED <<max_retries, transcript, script, sleeps,
                 jobVars, unitVars, storeVars>>

\* line 103-104: time.sleep(2 ** attempt); continue
S_Sleep ==
  /\ spc = "sleep"
  /\ sleeps' = Append(sleeps, [after |-> attempt, seconds |-> Backoff(attempt)])
  /\ attempt' = attempt + 1
  /\ spc' = "loop"
  /\ UNCHANGED <<max_retries, transcript, script, calls, summary,
                 jobVars, unitVars, storeVars>>

\* lines 106-107: all attempts used up: the fallback summary
S_Exhausted ==
  /\ spc = "loop"
  /\ attempt >= max_retries
  /\ summary' = "fallback"
  /\ spc' = "done"
  /\ UNCHANGED <<max_retries, transcript, script, attempt, calls, sleeps,
                 jobVars, unitVars, storeVars>>

NextSummary == S_Start \/ S_Attempt \/ S_Sleep \/ S_Exhausted

\* the call runs on: every call of the model and every sleep returns
SpecSummary == InitSummary /\ [][NextSummary]_vars /\ WF_vars(NextSummary)

\* ------------------------------------------------------- main: start-up
\* the environment variables main requires
REQUIRED_ENV == {"YOUTUBE_API_KEY", "GEMINI_API_KEY", "GMAIL_USER",
                 "GMAIL_APP_PASSWORD", "RECIPIENT_EMAIL"}

\* an environment variable is unset, set to the empty string, or set
EnvValues == {"unset", "", "set"}

\* os.environ.get('TARGET_USERNAME', 'lidangzzz')
TargetUsernames == {"unset", "", "someone"}

\* os.environ.get('CHANNELS_TO_MONITOR', '')
ChannelSettings == {"unset", "", "c1", "c1,c2", "c2, ,c1"}

Environs ==
  [required : [REQUIRED_ENV -> EnvValues], TARGET_USERNAME : TargetUsernames,
   CHANNELS_TO_MONITOR : ChannelSettings, TEST_MODE : BOOLEAN]

\* str.split(',') on the settings above
Split(setting) ==
  CASE setting = "c1" -> <<"c1">>
    [] setting = "c1,c2" -> <<"c1", "c2">>
    [] setting = "c2, ,c1" -> <<"c2", Blank, "c1">>
    [] OTHER -> <<"">>

\* "not config.get(key)" written as "config.get(key) is None"
MissingOnlyUnset(value) == value = "unset"

\* line 52: "not config.get(key)": the variable is unset or empty
Missing(value) == value \in {"unset", ""}

\* line 52: missing_keys
missing_keys(env) == {k \in REQUIRED_ENV : Missing(env.required[k])}

\* line 41: the configured username, 'lidangzzz' by default
target_username(env) ==
  IF env.TARGET_USERNAME = "unset" THEN "lidangzzz" ELSE env.TARGET_USERNAME

\* something main does that can be seen from outside
Did(op, arg) == [op |-> op, arg |-> arg]

\* lines 58-63: the components, in the order of their construction;
\* DataStore('data') makes the directories data and data/transcripts
Components ==
  <<Did("construct", "YouTubeClient"), Did("construct", "TranscriptFetcher"),
    Did("construct", "DownSubFetcher"), Did("construct", "AISummarizer"),
    Did("construct", "EmailSender"), Did("construct", "DataStore"),
    Did("mkdir", "data"), Did("mkdir", "data/transcripts")>>

InitStartup ==
  /\ InitJobIdle
  /\ InitStoreIdle
  /\ InitSummarizerIdle
  /\ \E env \in Environs : call = [fn |-> "main", environ |-> env]
  /\ upc = "main"
  /\ outcome = "unset"
  /\ trace = <<>>

\* main, lines 35-55: read the configuration and validate it
M_Validate ==
  /\ upc = "main"
  /\ IF missing_keys(call.environ) # {}
     THEN upc' = "exited" /\ outcome' = "exit 1"
     ELSE upc' = "init_components" /\ outcome' = outcome
  /\ UNCHANGED <<call, trace, jobVars, sumVars, storeVars>>

\* main, lines 58-63
M_InitComponents ==
  /\ upc = "init_components"
  /\ trace' = trace \o Components
  /\ upc' = "resolve_channels"
  /\ UNCHANGED <<call, outcome, jobVars, sumVars, storeVars>>

\* the channel id that get_channel_id_by_username finds for the username
target_channel_id == "UCtarget"

\* main, lines 66-83: the channels to monitor
M_ResolveChannels ==
  /\ upc = "resolve_channels"
  /\ IF target_username(call.environ) # ""
     THEN \E found \in BOOLEAN :
            LET looked == Append(trace, Did("get_channel_id_by_username",
                                            target_username(call.environ)))
            IN IF found
               THEN /\ trace' = looked \o
                        <<Did("target_channel_id", target_channel_id),
                          Did("channels_to_monitor", <<target_channel_id>>)>>
                    /\ upc' = "mode"
                    /\ outcome' = outcome
               ELSE /\ trace' = Append(looked, Did("target_channel_id", "None"))
                    /\ upc' = "exited"
                    /\ outcome' = "exit 1"
     ELSE IF Split(call.environ.CHANNELS_TO_MONITOR) # <<"">>
     THEN /\ trace' = Append(trace, Did("channels_to_monitor",
                                Split(call.environ.CHANNELS_TO_MONITOR)))
          /\ upc' = "mode"
          /\ outcome' = outcome
     ELSE /\ trace' = trace
          /\ upc' = "exited"
          /\ outcome' = "exit 1"
  /\ UNCHANGED <<call, jobVars, sumVars, storeVars>>

\* main, lines 86-94: test mode, or on to the loop over the channels
M_Mode ==
  /\ upc = "mode"
  /\ upc' = IF call.environ.TEST_MODE THEN "test_components" ELSE "monitoring"
  /\ UNCHANGED <<call, outcome, trace, jobVars, sumVars, storeVars>>

\* test_components, lines 347-354: the keys of results, in the order of the
\* checks
TestChecks ==
  <<"youtube_api", "transcript_api", "downsub_api", "gemini_api",
    "gmail_smtp", "data_store">>

\* how the checks end: the call gives True (for the fetchers: a transcript),
\* gives False (no transcript), or raises; the data store check sets True
\* whatever get_processed_videos returns
CheckAnswers ==
  {a \in [Range(TestChecks) -> {"True", "False", "raises"}] :
     a["data_store"] # "False"}

\* a check that raises inside no try block
CaughtNowhere(exc) == FALSE

\* "except Exception" around each check
CaughtInTest(exc) == exc = "Exception"

\* lines 356-400: what test_components does from check k on, each check
\* with how it ended: a check that raises leaves its result False and the
\* next check runs
RECURSIVE ChecksFrom(_, _)
ChecksFrom(answers, k) ==
  IF k > Len(TestChecks) THEN <<>>
  ELSE IF answers[TestChecks[k]] = "raises" /\ ~CaughtInTest("Exception")
  THEN <<Did(TestChecks[k], "raises"), Did("raise", "Exception")>>
  ELSE <<Did(TestChecks[k], answers[TestChecks[k]])>>
         \o ChecksFrom(answers, k + 1)

\* results, as the checks leave it
test_results(answers) ==
  [n \in Range(TestChecks) |-> answers[n] = "True"]

\* line 403: all(results.values())
all_passed(results) == \A n \in Range(TestChecks) : results[n]

\* test_components, lines 342-416, then "return" at line 90
M_TestComponents ==
  /\ upc = "test_components"
  /\ \E answers \in CheckAnswers :
       LET ran == ChecksFrom(answers, 1)
           results == test_results(answers)
       IN IF ran[Len(ran)].op = "raise"
          THEN /\ trace' = trace \o ran
               /\ upc' = "exited"
               /\ outcome' = "exit 1"
          ELSE /\ trace' = trace \o ran \o
                     <<Did("write data/test_results.json",
                           [results |-> results,
                            all_passed |-> all_passed(results)])>>
               /\ IF all_passed(results)
                  THEN upc' = "returned" /\ outcome' = "return"
                  ELSE upc' = "exited" /\ outcome' = "exit 1"
  /\ UNCHANGED <<call, jobVars, sumVars, storeVars>>

\* lines 76-83: channels_to_monitor, once it is set
channels_to_monitor ==
  trace[CHOOSE i \in 1..Len(trace) : trace[i].op = "channels_to_monitor"].arg

\* str.strip() of an entry of CHANNELS_TO_MONITOR
strip(entry) == IF entry = Blank THEN "" ELSE entry

\* the loop of lines 96-126 without "if not channel_id.strip(): continue"
RECURSIVE ProcessEveryEntry(_)
ProcessEveryEntry(channels) ==
  IF channels = <<>> THEN <<>>
  ELSE <<Did("process_channel", strip(Head(channels)))>>
         \o ProcessEveryEntry(Tail(channels))

\* lines 96-126: process_channel is called for every entry that is not
\* blank; what it raises is caught, and the loop goes on
RECURSIVE ProcessAll(_)
ProcessAll(channels) ==
  IF channels = <<>> THEN <<>>
  ELSE (IF strip(Head(channels)) = "" THEN <<>>
        ELSE <<Did("process_channel", strip(Head(channels)))>>)
         \o ProcessAll(Tail(channels))

\* main, lines 96-161: the loop over the channels, the summary file and the
\* summary email; main returns
M_Monitor ==
  /\ upc = "monitoring"
  /\ trace' = trace \o ProcessAll(channels_to_monitor) \o
                <<Did("write", "data/last_run_summary.json"),
                  Did("send_summary_email", "recipient_email")>>
  /\ upc' = "returned"
  /\ outcome' = "return"
  /\ UNCHANGED <<call, jobVars, sumVars, storeVars>>

NextStartup ==
  \/ M_Validate
  \/ M_InitComponents
  \/ M_ResolveChannels
  \/ M_Mode
  \/ M_TestComponents
  \/ M_Monitor

SpecStartup == InitStartup /\ [][NextStartup]_vars

\* ------------------------------------------------- DataStore on its own
\* the summaries passed to mark_video_processed: empty, short, of exactly
\* the limit, and longer than the limit
SummaryLengths == {0, 2, SUMMARY_LIMIT, SUMMARY_LIMIT + 1}

\* the arguments of a call mark_video_processed(channel_id, video_id,
\* video_info, summary, email_sent), and whether processed_videos.json can be
\* read and written while the call runs
MarkCalls ==
  [fn : {"mark_video_processed"}, channel_id : Channels, video_id : Videos,
   summary : {Text(n) : n \in SummaryLengths}, email_sent : BOOLEAN,
   readable : BOOLEAN, writable : BOOLEAN]

\* a data directory left by earlier runs; no call made yet
InitStore ==
  /\ runs = 0
  /\ pc = "idle"
  /\ config = [get_latest |-> FALSE, use_downsub |-> TRUE, channels |-> <<>>]
  /\ idx = 1
  /\ file \in InitialFiles
  /\ clock = NumVideos + 1
  /\ transcripts = {}
  /\ latest_videos = <<>>
  /\ processed_video_ids = {}
  /\ videos_to_process = <<>>
  /\ new_videos_count = 0
  /\ all_results = <<>>
  /\ total_new_videos = 0
  /\ summary_file = NoSummary
  /\ summary_emails = 0
  /\ notified = [c \in Channels |-> [v \in Videos |-> 0]]
  /\ log = <<>>
  /\ oracle = NoOracle
  /\ InitSummarizerIdle
  /\ InitStoreIdle
  /\ call = NoCall
  /\ upc = "ready"
  /\ outcome = "unset"
  /\ trace = <<>>

\* DataStore.mark_video_processed, lines 41-70: it returns None whether or
\* not the file was read and written
StoreMark ==
  /\ upc = "ready"
  /\ \E c \in MarkCalls :
       /\ call' = [before |-> file] @@ c
       /\ file' = mark_video_processed(file, c.readable, c.writable,
                                       c.channel_id, c.video_id, c.summary,
                                       c.email_sent, clock)
  /\ clock' = clock + 1
  /\ outcome' = "None"
  /\ upc' = "marked"
  /\ UNCHANGED trace
  /\ UNCHANGED <<runs, pc, config, idx, transcripts, latest_videos,
                 processed_video_ids, videos_to_process, new_videos_count,
                 all_results, total_new_videos, summary_file, summary_emails,
                 notified, log, oracle, sumVars, storeVars>>

\* DataStore.get_processed_videos(channel_id) after the call, lines 31-39
StoreGet ==
  /\ upc = "marked"
  /\ \E ch \in Channels, readable \in BOOLEAN :
       outcome' = [channel_id |-> ch,
                   videos |-> get_processed_videos(file, readable, ch)]
  /\ upc' = "read"
  /\ UNCHANGED <<call, trace, jobVars, sumVars, storeVars>>

NextStore == StoreMark \/ StoreGet

SpecStore == InitStore /\ [][NextStore]_vars

\* ------------------------------------- DataStore: the transcript files
\* the transcripts passed to save_transcript: one with its language code,
\* and a longer one whose language is None
FetchedTranscripts ==
  {[transcript |-> Text(1), language |-> Some("en")],
   [transcript |-> Text(2), language |-> None("")]}

\* the arguments of a call save_transcript(channel_id, video_id, transcript,
\* language), and what the file system does while the call runs
SaveCalls ==
  {[fn |-> "save_transcript", channel_id |-> ch, video_id |-> vid,
    transcript |-> t.transcript, language |-> t.language, run |-> run] :
     ch \in Channels, vid \in Videos, t \in FetchedTranscripts,
     run \in SaveRuns}

\* the calls of save_transcript made so far, as positions of trace
Saved == {i \in 1..Len(trace) : trace[i].op = "save_transcript"}

\* a new data directory; no call made yet
InitTranscripts ==
  /\ InitJobIdle
  /\ transcript_files = NoTranscriptFiles
  /\ run_state = <<>>
  /\ InitSummarizerIdle
  /\ call = NoCall
  /\ upc = "ready"
  /\ outcome = "unset"
  /\ trace = <<>>

\* DataStore.save_transcript, lines 72-93: the call returns None, or raises
T_Save ==
  /\ upc \in {"ready", "saved", "raised", "read"}
  /\ Cardinality(Saved) < MaxSaves
  /\ \E c \in SaveCalls :
       LET after == save_transcript(transcript_files, c.channel_id,
                                    c.video_id, c.transcript, c.language,
                                    clock, c.run)
       IN /\ call' = [before |-> transcript_files, saved_at |-> clock] @@ c
          /\ transcript_files' = after.files
          /\ trace' = Append(trace, Did("save_transcript",
                                        <<c.channel_id, c.video_id>>))
          /\ IF after.raised = "none"
             THEN upc' = "saved" /\ outcome' = "None"
             ELSE upc' = "raised" /\ outcome' = after.raised
  /\ clock' = clock + 1
  /\ UNCHANGED <<runs, pc, config, idx, file, transcripts, latest_videos,
                 processed_video_ids, videos_to_process, new_videos_count,
                 all_results, total_new_videos, summary_file, summary_emails,
                 notified, log, oracle, run_state, sumVars>>

\* DataStore.get_transcript, lines 95-107
T_Get ==
  /\ upc \in {"ready", "saved", "raised"}
  /\ \E ch \in Channels, vid \in Videos, readable \in BOOLEAN :
       outcome' = [channel_id |-> ch, video_id |-> vid, readable |-> readable,
                   document |-> get_transcript(transcript_files, ch, vid,
                                               readable)]
  /\ upc' = "read"
  /\ UNCHANGED <<call, trace, jobVars, sumVars, storeVars>>

NextTranscripts == T_Save \/ T_Get

SpecTranscripts == InitTranscripts /\ [][NextTranscripts]_vars

\* -------------------------------------- YouTubeClient.get_latest_videos
\* snippet.publishedAt of the playlist items, as logical times
PublishTimes == {1, 2}

\* an item of the uploads playlist: the video, when it was published, whether
\* get_video_details returns details for it (None when the video is not
\* found or the call fails), and whether its snippet has every key read
PlaylistItems ==
  [id : Videos, published_at : PublishTimes, details : BOOLEAN,
   whole : BOOLEAN]

\* the uploads playlist: each video at most once
Playlists ==
  {s \in UNION {[1..n -> PlaylistItems] : n \in 0..NumVideos} :
     \A i, j \in 1..Len(s) : i # j => s[i].id # s[j].id}

\* published_after: None, a datetime with a time zone, or a naive datetime
PublishedAfters ==
  {[some |-> FALSE, value |-> 0, aware |-> TRUE]}
    \cup [some : {TRUE}, value : PublishTimes, aware : BOOLEAN]

\* how channels().list and playlistItems().list end
ChannelAnswers == {"found", "not found", "HttpError"}

PlaylistAnswers == {"ok", "HttpError"}

\* a call get_latest_videos(channel_id, max_results, published_after) and
\* what the API answers
LatestVideosCalls ==
  [fn : {"get_latest_videos"}, channel : ChannelAnswers,
   playlist_call : PlaylistAnswers, playlist : Playlists,
   max_results : 1..NumVideos, published_after : PublishedAfters]

\* playlistItems().list(maxResults=max_results): the first items
playlist_response(c) == Take(c.playlist, c.max_results)

\* line 155 with "<" for "<="
SkippedWhenOlder(published_at, published_after) ==
  published_after.some /\ published_at < published_after.value

\* line 155: published_after and published_at <= published_after
SkippedAsOld(published_at, published_after) ==
  published_after.some /\ published_at <= published_after.value

\* the items that reach line 155 or beyond
WithDetails(c) == SelectSeq(playlist_response(c), LAMBDA item : item.details)

\* lines 150-153 give a datetime with a time zone; comparing it with a naive
\* one raises TypeError
ComparisonRaises(c) ==
  /\ WithDetails(c) # <<>>
  /\ c.published_after.some
  /\ ~c.published_after.aware

\* the items that reach videos.append, lines 159-171
Appended(c) ==
  SelectSeq(WithDetails(c),
            LAMBDA item : ~SkippedAsOld(item.published_at, c.published_after))

\* a snippet without thumbnails.high or title raises KeyError at 159-171
AppendRaises(c) == \E i \in 1..Len(Appended(c)) : ~Appended(c)[i].whole

\* line 174: videos.sort(key=published_at, reverse=True): stable
RECURSIVE InsertNewest(_, _)
InsertNewest(v, s) ==
  IF s = <<>> THEN <<v>>
  ELSE IF Head(s).published_at < v.published_at THEN <<v>> \o s
       ELSE <<Head(s)>> \o InsertNewest(v, Tail(s))

RECURSIVE SortNewestFirst(_)
SortNewestFirst(s) ==
  IF s = <<>> THEN <<>>
  ELSE InsertNewest(s[Len(s)], SortNewestFirst(SubSeq(s, 1, Len(s) - 1)))

\* the dict appended for an item
VideoOf(item) == [id |-> item.id, published_at |-> item.published_at]

\* what is raised inside the try block, lines 127-179
RaisedInListing(c) ==
  IF c.channel # "found" THEN "none"
  ELSE IF c.playlist_call # "ok" THEN c.playlist_call
  ELSE IF ComparisonRaises(c) THEN "TypeError"
  ELSE IF AppendRaises(c) THEN "KeyError"
  ELSE "none"

\* lines 181-186: except HttpError, except Exception
CaughtInListing(exc) == exc \in {"HttpError", "TypeError", "KeyError"}

\* get_latest_videos, lines 113-189: what it returns, or what it raises
YouTubeClient_get_latest_videos(c) ==
  LET exc == RaisedInListing(c)
  IN IF exc # "none"
     THEN [videos |-> <<>>,
           raised |-> IF CaughtInListing(exc) THEN "none" ELSE exc]
     ELSE IF c.channel # "found" THEN [videos |-> <<>>, raised |-> "none"]
     ELSE [videos |-> SortNewestFirst([i \in 1..Len(Appended(c)) |->
                                         VideoOf(Appended(c)[i])]),
           raised |-> "none"]

InitLatestVideos ==
  /\ InitJobIdle
  /\ InitStoreIdle
  /\ InitSummarizerIdle
  /\ call \in LatestVideosCalls
  /\ upc = "called"
  /\ outcome = "unset"
  /\ trace = <<>>

\* YouTubeClient.get_latest_videos runs and returns
GetLatestVideos ==
  /\ upc = "called"
  /\ call.fn = "get_latest_videos"
  /\ outcome' = YouTubeClient_get_latest_videos(call)
  /\ upc' = "returned"
  /\ UNCHANGED <<call, trace, jobVars, sumVars, storeVars>>

NextLatestVideos == GetLatestVideos

SpecLatestVideos == InitLatestVideos /\ [][NextLatestVideos]_vars

\* ------------------------------- two runs of the job on one data directory
\* the two processes that run main at the same time
OverlappingRuns == {"run A", "run B"}

\* a run of main that monitors one channel (the channel of TARGET_USERNAME),
\* before its call of process_channel: nothing listed, no call in progress
Between(ch) ==
  [at |-> "main", todo |-> {ch}, channel_id |-> "", ids |-> {},
   video_id |-> 0, all_videos |-> NoRecords]

\* the record mark_video_processed builds, lines 51-60
processed_record(vid, now) ==
  [video_id |-> vid, email_sent |-> TRUE, processed_at |-> now,
   summary |-> Text(1)]

InitOverlap ==
  /\ runs = 0
  /\ pc = "idle"
  /\ config = [get_latest |-> FALSE, use_downsub |-> TRUE, channels |-> <<>>]
  /\ idx = 1
  /\ file \in InitialFiles
  /\ clock = NumVideos + 1
  /\ transcripts = {}
  /\ latest_videos = <<>>
  /\ processed_video_ids = {}
  /\ videos_to_process = <<>>
  /\ new_videos_count = 0
  /\ all_results = <<>>
  /\ total_new_videos = 0
  /\ summary_file = NoSummary
  /\ summary_emails = 0
  /\ notified = [c \in Channels |-> [v \in Videos |-> 0]]
  /\ log = <<>>
  /\ oracle = NoOracle
  /\ InitSummarizerIdle
  /\ InitUnitIdle
  /\ transcript_files = <<>>
  /\ run_state \in [OverlappingRuns -> {Between(ch) : ch \in Channels}]

\* what a step of one of the two runs leaves alone
OverlapUnchanged ==
  UNCHANGED <<runs, pc, config, idx, transcripts, latest_videos,
              processed_video_ids, videos_to_process, new_videos_count,
              all_results, total_new_videos, summary_file, summary_emails,
              notified, log, oracle, call, upc, outcome, transcript_files,
              sumVars>>

\* process_channel, lines 192-212: a run takes its channel and reads the ids
\* of the processed list; the videos it will handle are not among them
O_List ==
  /\ \E r \in OverlappingRuns :
       /\ run_state[r].at = "main"
       /\ \E ch \in run_state[r].todo :
            run_state' = [run_state EXCEPT ![r] =
              [@ EXCEPT !.at = "process_channel", !.todo = @ \ {ch},
                        !.channel_id = ch,
                        !.ids = Ids(get_processed_videos(file, TRUE, ch))]]
  /\ UNCHANGED <<file, clock, trace>>
  /\ OverlapUnchanged

\* mark_video_processed, line 48: all_videos = self._load_processed_videos()
\* for a video of the run's list
O_Load ==
  /\ \E r \in OverlappingRuns :
       /\ run_state[r].at = "process_channel"
       /\ \E vid \in Videos \ run_state[r].ids :
            run_state' = [run_state EXCEPT ![r] =
              [@ EXCEPT !.at = "mark_video_processed", !.video_id = vid,
                        !.ids = @ \cup {vid},
                        !.all_videos = _load_processed_videos(file, TRUE)]]
  /\ UNCHANGED <<file, clock, trace>>
  /\ OverlapUnchanged

\* mark_video_processed, lines 62-70: the record is appended to the list
\* that was loaded and the whole dict is written
O_Save ==
  /\ \E r \in OverlappingRuns :
       LET st == run_state[r]
       IN /\ st.at = "mark_video_processed"
          /\ file' = _save_processed_videos(
                       file,
                       [st.all_videos EXCEPT ![st.channel_id] =
                          Append(@, processed_record(st.video_id, clock))],
                       TRUE)
          /\ trace' = Append(trace, Did("mark_video_processed",
                                        [run |-> r,
                                         channel_id |-> st.channel_id,
                                         video_id |-> st.video_id]))
          /\ run_state' = [run_state EXCEPT ![r] =
               [@ EXCEPT !.at = "process_channel", !.all_videos = NoRecords]]
  /\ clock' = clock + 1
  /\ OverlapUnchanged

\* process_channel returns: the run has handled the videos of its list
O_Return ==
  /\ \E r \in OverlappingRuns :
       /\ run_state[r].at = "process_channel"
       /\ run_state' = [run_state EXCEPT ![r] =
            [@ EXCEPT !.at = "main", !.channel_id = "", !.ids = {}]]
  /\ UNCHANGED <<file, clock, trace>>
  /\ OverlapUnchanged

NextOverlap == O_List \/ O_Load \/ O_Save \/ O_Return

SpecOverlap == InitOverlap /\ [][NextOverlap]_vars

\* ------------------------------------- TranscriptFetcher.fetch_transcript
\* PREFERRED_LANGUAGES = ['en', 'en-US', 'en-GB']
PREFERRED_LANGUAGES == <<"en", "en-US", "en-GB">>

Languages == Range(PREFERRED_LANGUAGES) \cup {"fr", "de"}

\* f"{lang}-auto"
Auto(lang) ==
  CASE lang = "en" -> "en-auto"
    [] lang = "en-US" -> "en-US-auto"
    [] lang = "en-GB" -> "en-GB-auto"
    [] lang = "fr" -> "fr-auto"
    [] lang = "de" -> "de-auto"

\* the transcripts of one kind (manually created, or generated) that a video
\* has, in the order of the listing: at most one per language
LanguageSeqs ==
  UNION {{q \in [1..n -> Languages] : \A i, j \in 1..n : i # j => q[i] # q[j]}
         : n \in 0..MaxTracks}

\* the exceptions of youtube_transcript_api and of the network that reach
\* fetch_transcript's handlers; RequestBlocked is how a library without
\* TooManyRequests reports too many requests
ApiErrors == {"TranscriptsDisabled", "VideoUnavailable", "TooManyRequests",
              "RequestBlocked", "OtherError"}

\* lines 21-25: the library raises TooManyRequests only if it defines it
Raisable(has_tmr) ==
  IF has_tmr THEN ApiErrors \ {"RequestBlocked"}
  ELSE ApiErrors \ {"TooManyRequests"}

\* what ydl.extract_info and the subtitle download inside _fetch_with_ytdlp
\* come to
YtdlpRuns == {"text", "none", "raise"}

\* a call fetch_transcript(video_id): whether the import of line 23
\* succeeded, how list_transcripts ends, the transcripts listed, how
\* transcript.fetch() ends (with segments, with segments that leave no text,
\* or with an exception), and what yt-dlp does
FetchTranscriptCalls ==
  {c \in [fn : {"TranscriptFetcher.fetch_transcript"}, has_tmr : BOOLEAN,
          listing : {"ok"} \cup ApiErrors, manual : LanguageSeqs,
          generated : LanguageSeqs,
          fetch : {"data", "no text"} \cup ApiErrors,
          ytdlp : YtdlpRuns] :
     /\ c.listing \in {"ok"} \cup Raisable(c.has_tmr)
     /\ c.fetch \in {"data", "no text"} \cup Raisable(c.has_tmr)
     /\ c.listing # "ok" => c.manual = <<>> /\ c.generated = <<>>}

\* a (transcript_text, language_code) pair; track is the place of the chosen
\* transcript in list(transcript_list), 0 when it is none of them
Pair(text, track, lang) ==
  [raised |-> "none", transcript |-> text, track |-> track, language |-> lang]

NonePair == Pair("None", 0, "None")

\* the call ends with exception exc leaving it
Raise(exc) ==
  [raised |-> exc, transcript |-> "None", track |-> 0, language |-> "None"]

\* the first place of lang in q, 0 when it is not there
RECURSIVE IndexIn(_, _)
IndexIn(lang, q) ==
  IF q = <<>> THEN 0
  ELSE IF q[Len(q)] = lang /\ IndexIn(lang, SubSeq(q, 1, Len(q) - 1)) = 0
       THEN Len(q)
       ELSE IndexIn(lang, SubSeq(q, 1, Len(q) - 1))

\* TranscriptList.find_transcript([lang]) of youtube_transcript_api, called
\* at line 65: the manually created transcript of that language, the
\* generated one if there is none; 0 stands for NoTranscriptFound
find_transcript(c, lang) ==
  IF IndexIn(lang, c.manual) # 0 THEN IndexIn(lang, c.manual)
  ELSE IF IndexIn(lang, c.generated) # 0
       THEN Len(c.manual) + IndexIn(lang, c.generated)
       ELSE 0

\* TranscriptList.find_generated_transcript([lang]), called at line 78
find_generated_transcript(c, lang) ==
  IF IndexIn(lang, c.generated) # 0
  THEN Len(c.manual) + IndexIn(lang, c.generated) ELSE 0

\* list(transcript_list), line 91: the manual transcripts, then the generated
\* ones
available_transcripts(c) ==
  [i \in 1..(Len(c.manual) + Len(c.generated)) |->
     IF i <= Len(c.manual)
     THEN [language_code |-> c.manual[i], is_generated |-> FALSE]
     ELSE [language_code |-> c.generated[i - Len(c.manual)],
           is_generated |-> TRUE]]

\* lines 63-70: the preferred languages for which find_transcript finds a
\* transcript
FoundByFind(c) ==
  SelectSeq(PREFERRED_LANGUAGES, LAMBDA lang : find_transcript(c, lang) # 0)

\* lines 76-83: the same for find_generated_transcript
FoundGenerated(c) ==
  SelectSeq(PREFERRED_LANGUAGES,
            LAMBDA lang : find_generated_transcript(c, lang) # 0)

\* lines 59-101: the transcript chosen and its language code; track 0 when
\* there is none
Chosen(c) ==
  IF FoundByFind(c) # <<>>
  THEN [track |-> find_transcript(c, Head(FoundByFind(c))),
        language |-> Head(FoundByFind(c))]
  ELSE IF FoundGenerated(c) # <<>>
  THEN [track |-> find_generated_transcript(c, Head(FoundGenerated(c))),
        language |-> Auto(Head(FoundGenerated(c)))]
  ELSE IF available_transcripts(c) # <<>>
  THEN [track |-> 1, language |-> available_transcripts(c)[1].language_code]
  ELSE [track |-> 0, language |-> "None"]

\* _fetch_with_ytdlp without its "except Exception"
_fetch_with_ytdlp_unguarded(c) ==
  CASE c.ytdlp = "text" -> Pair("yt-dlp text", 0, "yt-dlp language")
    [] c.ytdlp = "none" -> NonePair
    [] c.ytdlp = "raise" -> Raise("DownloadError")

\* _fetch_with_ytdlp, lines 242-327: text and language, or (None, None), also
\* when yt-dlp or the download raises
_fetch_with_ytdlp(c) ==
  CASE c.ytdlp = "text" -> Pair("yt-dlp text", 0, "yt-dlp language")
    [] c.ytdlp = "none" -> NonePair
    [] c.ytdlp = "raise" -> NonePair

\* lines 111-124: the except clause that handles exc. Without the library's
\* TooManyRequests the name is bound to Exception (line 25), and the third
\* clause takes every exception the first two did not
Handler(exc, has_tmr) ==
  IF exc = "TranscriptsDisabled" THEN "except TranscriptsDisabled"
  ELSE IF exc = "VideoUnavailable" THEN "except VideoUnavailable"
  ELSE IF ~has_tmr \/ exc = "TooManyRequests" THEN "except TooManyRequests"
  ELSE "except Exception"

\* lines 111-124: the first and the last clause fall back to yt-dlp
FallsBackToYtdlp(clause) ==
  clause \in {"except TranscriptsDisabled", "except Exception"}

\* lines 54-124: the exception raised inside the try block, "none" if none
RaisedInTry(c) ==
  IF c.listing # "ok" THEN c.listing
  ELSE IF Chosen(c).track # 0 /\ c.fetch \in ApiErrors THEN c.fetch
  ELSE "none"

\* fetch_transcript, lines 44-124
fetch_transcript(c) ==
  IF RaisedInTry(c) # "none"
  THEN IF FallsBackToYtdlp(Handler(RaisedInTry(c), c.has_tmr))
       THEN _fetch_with_ytdlp(c) ELSE NonePair
  ELSE IF Chosen(c).track = 0 THEN NonePair
  ELSE Pair(IF c.fetch = "data" THEN "api text" ELSE "",
            Chosen(c).track, Chosen(c).language)

\* the calls fetch_transcript makes, in order
FetchTrace(c) ==
  <<"list_transcripts">>
  \o (IF c.listing = "ok" /\ Chosen(c).track # 0 THEN <<"fetch">> ELSE <<>>)
  \o (IF RaisedInTry(c) # "none"
         /\ FallsBackToYtdlp(Handler(RaisedInTry(c), c.has_tmr))
      THEN <<"_fetch_with_ytdlp">> ELSE <<>>)

\* ------------------------------------------------------- DownSubFetcher
\* a subtitle track; url tells the tracks of a list apart
Track(url, language, auto_generated) ==
  [url |-> url, language |-> language, auto_generated |-> auto_generated]

NoTrack == Track(0, "None", FALSE)

SubtitleLanguages == {"en", "zh", "fr"}

\* the non-empty track lists _parse_subtitle_links can return
TrackLists ==
  UNION {{[i \in 1..n |-> Track(i, l[i], a[i])] :
            l \in [1..n -> SubtitleLanguages], a \in [1..n -> BOOLEAN]}
         : n \in 1..MaxTracks}

\* _check_downsub_api, lines 122-180: None, the JSON object (with or without
\* 'urlSubtitle'), or the list of tracks built from the object's subtitles
ApiChecks == {"None", "object", "object with urlSubtitle", "list"}

\* _try_direct_subtitle_access, lines 182-248: None, or one track with the
\* content, in 'zh' or 'en'
DirectResults ==
  {None(<<>>)} \cup {Some(<<Track(0, l, FALSE)>>) : l \in {"en", "zh"}}

\* _scrape_subtitle_info, lines 293-353: None, or a non-empty track list
ScrapeResults == {None(<<>>)} \cup {Some(t) : t \in TrackLists}

\* _try_api_guided_access, lines 250-270: always None
_try_api_guided_access(api) == None(<<>>)

\* line 108: "api_result and api_result.get('urlSubtitle')"; a list has no
\* method get
GuidedTest(api) ==
  CASE api = "None" -> "false"
    [] api = "object" -> "false"
    [] api = "object with urlSubtitle" -> "true"
    [] api = "list" -> "AttributeError"

\* _get_subtitle_info, lines 95-116: the body of the try block
Strategies(c) ==
  IF c.direct.some THEN [raised |-> "none", tracks |-> c.direct]
  ELSE IF GuidedTest(c.api) = "AttributeError"
  THEN [raised |-> "AttributeError", tracks |-> None(<<>>)]
  ELSE IF GuidedTest(c.api) = "true" /\ _try_api_guided_access(c.api).some
  THEN [raised |-> "none", tracks |-> _try_api_guided_access(c.api)]
  ELSE [raised |-> "none", tracks |-> c.scrape]

\* the strategies _get_subtitle_info calls, in order
StrategyTrace(c) ==
  <<"_check_downsub_api", "_try_direct_subtitle_access">>
  \o (IF ~c.direct.some /\ GuidedTest(c.api) = "true"
      THEN <<"_try_api_guided_access">> ELSE <<>>)
  \o (IF ~c.direct.some /\ GuidedTest(c.api) # "AttributeError"
         /\ ~(GuidedTest(c.api) = "true" /\ _try_api_guided_access(c.api).some)
      THEN <<"_scrape_subtitle_info">> ELSE <<>>)

\* _get_subtitle_info, lines 79-120
_get_subtitle_info(c) ==
  IF Strategies(c).raised # "none" THEN None(<<>>) ELSE Strategies(c).tracks

\* lines 502-507
preferences ==
  <<[language |-> "en", auto_generated |-> FALSE],
    [language |-> "en", auto_generated |-> TRUE],
    [language |-> "zh", auto_generated |-> FALSE],
    [language |-> "zh", auto_generated |-> TRUE]>>

\* lines 511-512
Matches(subtitle, pref) ==
  /\ subtitle.language = pref.language
  /\ subtitle.auto_generated = pref.auto_generated

\* "for subtitle in subtitles: for pref in preferences": the first track
\* that matches any preference
_select_best_subtitle_by_track(subtitles) ==
  IF subtitles = <<>> THEN None(NoTrack)
  ELSE LET matching == SelectSeq(subtitles, LAMBDA t :
                         \E k \in 1..Len(preferences) : Matches(t, preferences[k]))
       IN IF matching # <<>> THEN Some(Head(matching)) ELSE Some(subtitles[1])

\* _select_best_subtitle, lines 488-516
_select_best_subtitle(subtitles) ==
  IF subtitles = <<>> THEN None(NoTrack)
  ELSE LET satisfiable == SelectSeq(preferences, LAMBDA pref :
                            \E i \in 1..Len(subtitles) : Matches(subtitles[i], pref))
       IN IF satisfiable # <<>>
          THEN Some(Head(SelectSeq(subtitles,
                                   LAMBDA t : Matches(t, Head(satisfiable)))))
          ELSE Some(subtitles[1])

\* _download_subtitle, lines 518-563: the text, or None
DownloadResults == {"text", "None"}

\* DownSubFetcher.fetch_transcript, lines 46-73: the body of the try block
DownSubBody(c) ==
  LET subtitles_info == _get_subtitle_info(c)
      best_subtitle == _select_best_subtitle(subtitles_info.value)
  IN IF ~subtitles_info.some \/ subtitles_info.value = <<>> THEN NonePair
     ELSE IF ~best_subtitle.some THEN NonePair
     ELSE IF c.download = "None" THEN NonePair
     ELSE Pair("downsub text", best_subtitle.value.url,
               best_subtitle.value.language)

\* DownSubFetcher.fetch_transcript, lines 31-77
downsub_fetch_transcript(c) ==
  IF DownSubBody(c).raised # "none" THEN NonePair ELSE DownSubBody(c)

\* --------------------------------------------- the fetchers on their own
DownSubFetchCalls ==
  [fn : {"DownSubFetcher.fetch_transcript"}, api : ApiChecks,
   direct : DirectResults, scrape : ScrapeResults, download : DownloadResults]

GetSubtitleInfoCalls ==
  [fn : {"_get_subtitle_info"}, api : ApiChecks, direct : DirectResults,
   scrape : ScrapeResults]

\* the empty list and the non-empty ones
SelectBestSubtitleCalls ==
  [fn : {"_select_best_subtitle"}, subtitles : {<<>>} \cup TrackLists]

\* one call with its arguments and the answers of what it calls
InitFetch ==
  /\ InitJobIdle
  /\ InitStoreIdle
  /\ InitSummarizerIdle
  /\ \/ call \in FetchTranscriptCalls
     \/ call \in DownSubFetchCalls
     \/ call \in GetSubtitleInfoCalls
     \/ call \in SelectBestSubtitleCalls
  /\ upc = "called"
  /\ outcome = "unset"
  /\ trace = <<>>

\* TranscriptFetcher.fetch_transcript runs and returns
FetchTranscript ==
  /\ upc = "called"
  /\ call.fn = "TranscriptFetcher.fetch_transcript"
  /\ outcome' = fetch_transcript(call)
  /\ trace' = FetchTrace(call)
  /\ upc' = "returned"
  /\ UNCHANGED <<call, jobVars, sumVars, storeVars>>

\* DownSubFetcher.fetch_transcript runs and returns
DownSubFetchTranscript ==
  /\ upc = "called"
  /\ call.fn = "DownSubFetcher.fetch_transcript"
  /\ outcome' = downsub_fetch_transcript(call)
  /\ trace' = StrategyTrace(call)
  /\ upc' = "returned"
  /\ UNCHANGED <<call, jobVars, sumVars, storeVars>>

\* DownSubFetcher._get_subtitle_info runs and returns
GetSubtitleInfo ==
  /\ upc = "called"
  /\ call.fn = "_get_subtitle_info"
  /\ outcome' = _get_subtitle_info(call)
  /\ trace' = StrategyTrace(call)
  /\ upc' = "returned"
  /\ UNCHANGED <<call, jobVars, sumVars, storeVars>>

\* DownSubFetcher._select_best_subtitle runs and returns
SelectBestSubtitle ==
  /\ upc = "called"
  /\ call.fn = "_select_best_subtitle"
  /\ outcome' = _select_best_subtitle(call.subtitles)
  /\ upc' = "returned"
  /\ UNCHANGED <<call, trace, jobVars, sumVars, storeVars>>

NextFetch ==
  \/ FetchTranscript
  \/ DownSubFetchTranscript
  \/ GetSubtitleInfo
  \/ SelectBestSubtitle

SpecFetch == InitFetch /\ [][NextFetch]_vars

\* ---------------------------------------------------------- vocabulary
\* the positions of the log where op was done for video vid of channel ch
Pos(op, ch, vid) ==
  {i \in 1..Len(log) : log[i].op = op /\ log[i].ch = ch /\ log[i].vid = vid}

FetchOps == {"fetch_downsub", "fetch_api", "fetch_ytdlp"}

AttemptOps == FetchOps \cup {"save_transcript", "generate_summary",
                             "send_video_notification"}

\* the positions of the provider calls made for a video
FetchPos(ch, vid) == UNION {Pos(op, ch, vid) : op \in FetchOps}

LastResult == all_results[Len(all_results)]

\* process_channel has just ended for a channel, by return or by an error
ChannelFinished == pc = "for_channel" /\ all_results # <<>>

\* the videos the finished call of process_channel took up (line 216)
Entered(ch) == {v \in Videos : Pos("enter", ch, v) # {}}

\* the listed videos whose id was not in the processed list
Unseen == {v \in Range(latest_videos) : v \notin processed_video_ids}

\* a video was taken up in the call of process_channel that just ended; oracle
\* is what the providers hold for the last such video
HandledOne ==
  /\ ChannelFinished
  /\ oracle # NoOracle
  /\ log # <<>>
  /\ log[Len(log)].ch = LastResult.channel_id

LastVideo == log[Len(log)].vid

\* every provider of the chain fails for the video: raises or has no text
AllProvidersFail ==
  /\ oracle.downsub # "text"
  /\ TranscriptFetcherResult(oracle) # "text"

\* the chain of the run's configuration has a transcript for the video
SomeProviderSucceeds ==
  \/ config.use_downsub /\ oracle.downsub = "text"
  \/ TranscriptFetcherResult(oracle) = "text"

NonBlankChannels == SelectSeq(config.channels, LAMBDA c : c # Blank)

RECURSIVE CountSum(_)
CountSum(results) ==
  IF results = <<>> THEN 0
  ELSE Head(results).new_videos_count + CountSum(Tail(results))

\* ---------------------------------------------------------------- claims
\* C1: after any sequence of runs, in normal or GET_LATEST mode, every
\* channel's list in processed_videos.json holds at most one record per
\* video id.
C1_UniqueVideoIds ==
  \A ch \in Channels : \A i, j \in 1..Len(file[ch]) :
    i # j => file[ch][i].video_id # file[ch][j].video_id

\* a second run has ended, it took up a video, and the processed list of some
\* channel holds records
C1_Witness ==
  /\ runs >= 2
  /\ pc = "idle"
  /\ \E i \in 1..Len(log) : log[i].op = "enter"
  /\ \E ch \in Channels : Len(file[ch]) >= 1

\* C2 (as claimed): in normal mode, when process_channel has ended, every
\* listed video whose id was not in the processed list has had its
\* notification email sent and its record written, and new_videos_count is the
\* number of these videos.
C2_UnseenVideosProcessed ==
  (ChannelFinished /\ ~config.get_latest) =>
    /\ \A v \in Unseen :
         /\ Pos("send_video_notification", LastResult.channel_id, v) # {}
         /\ v \in Ids(file[LastResult.channel_id])
    /\ LastResult.new_videos_count = Cardinality(Unseen)

\* C3: across normal-mode runs a handled video is not handled again: at most
\* one notification email is sent per channel and video, no fetch, summary or
\* email is attempted for a video whose id is in the processed list, and no
\* video whose id was loaded from the processed list is among the videos to
\* process.
C3_NoRepeatedHandling ==
  /\ \A ch \in Channels, v \in Videos : notified[ch][v] <= 1
  /\ \A i \in 1..Len(log) : log[i].op \in AttemptOps => ~log[i].already
  /\ Range(videos_to_process) \cap processed_video_ids = {}

\* a listed video was in the processed list and was passed over while another
\* listed video was taken up
C3_Witness ==
  /\ ChannelFinished
  /\ \E v \in Range(latest_videos) :
       /\ v \in processed_video_ids
       /\ v \in Ids(file[LastResult.channel_id])
       /\ v \notin Entered(LastResult.channel_id)
  /\ \E w \in Range(latest_videos) : w \in Entered(LastResult.channel_id)

\* C4 (as claimed): for each video taken up, the providers are attempted in
\* the order youtube-transcript-api, yt-dlp, DownSub: the first provider call
\* is to youtube-transcript-api, and a call to DownSub comes after every call
\* to yt-dlp.
C4_ProviderOrder ==
  ChannelFinished =>
    \A v \in Entered(LastResult.channel_id) :
      LET ch == LastResult.channel_id
      IN /\ \E i \in Pos("fetch_api", ch, v) :
              \A j \in FetchPos(ch, v) : i <= j
         /\ \A i \in Pos("fetch_ytdlp", ch, v), j \in Pos("fetch_downsub", ch, v) :
              i < j

C6_NoTranscriptNotification ==
  (HandledOne /\ AllProvidersFail) =>
    LET ch == LastResult.channel_id
        v == LastVideo
    IN /\ Pos("send_video_notification", ch, v) # {}
       /\ Pos("save_transcript", ch, v) = {}
       /\ Pos("generate_summary", ch, v) = {}
       /\ LastResult.new_videos_count >= 1
       /\ ~config.get_latest => v \in Ids(file[ch])

\* C7 (as claimed): when a transcript is obtained for a video taken up, the
\* transcript is saved, then the summary generated, then the notification
\* sent, then (in normal mode) the processed record written.
C7_StepOrder ==
  (HandledOne /\ SomeProviderSucceeds) =>
    LET ch == LastResult.channel_id
        v == LastVideo
    IN \E a \in Pos("save_transcript", ch, v),
          b \in Pos("generate_summary", ch, v),
          c \in Pos("send_video_notification", ch, v) :
         /\ a < b
         /\ b < c
         /\ ~config.get_latest =>
              \E d \in Pos("mark_video_processed", ch, v) : c < d

C9_BoundedRetries ==
  /\ [](/\ calls <= max_retries
        /\ \A k \in 1..Len(sleeps) :
             /\ script[sleeps[k].after] = "raise"
             /\ sleeps[k].after < max_retries - 1
             /\ sleeps[k].seconds = Pow2(sleeps[k].after)
             /\ \A m \in 1..Len(sleeps) : m # k => sleeps[m].after # sleeps[k].after
             /\ spc = "done" => calls >= sleeps[k].after + 2
        /\ \A a \in 0..(DEFAULT_MAX_RETRIES - 1) :
             (calls >= a + 1 /\ script[a] = "blocked") =>
               /\ calls = a + 1
               /\ spc = "done"
               /\ summary = "fallback"
               /\ \A k \in 1..Len(sleeps) : sleeps[k].after < a)
  /\ <>(spc = "done")

\* all three attempts raised: two sleeps, of 1 and 2 seconds, none after the
\* last attempt
C9_Witness ==
  /\ spc = "done"
  /\ max_retries = DEFAULT_MAX_RETRIES
  /\ calls = DEFAULT_MAX_RETRIES
  /\ sleeps = <<[after |-> 0, seconds |-> 1], [after |-> 1, seconds |-> 2]>>

\* C10: every run writes data/last_run_summary.json and then calls
\* send_summary_email exactly once, whatever the channels did: no run ends
\* before that, the email comes after the write, and every run comes to its
\* end; the summary's total_new_videos is the sum of new_videos_count over
\* all_results.
C10_SummaryAlways ==
  /\ [](/\ summary_emails <= 1
        /\ pc # "crashed"
        /\ (pc = "send_summary" \/ summary_emails = 1) =>
             /\ summary_file.run = runs
             /\ summary_file.total_new_videos = CountSum(all_results)
             /\ summary_file.channels_processed = Len(config.channels)
        /\ (pc = "idle" /\ runs > 0) => summary_emails = 1)
  /\ []<>(pc = "idle")

\* a run in which a channel failed has written its summary and sent the email
C10_Witness ==
  /\ pc = "idle"
  /\ summary_emails = 1
  /\ summary_file.run = runs
  /\ \E k \in 1..Len(all_results) : all_results[k].error = "NameError"

\* C11: if any of YOUTUBE_API_KEY, GEMINI_API_KEY, GMAIL_USER,
\* GMAIL_APP_PASSWORD or RECIPIENT_EMAIL is unset or empty, the first step of
\* main is to exit with status 1: no client is constructed, no external call
\* made, no email sent, and nothing created or modified in the data directory.
C11_MissingConfigExits ==
  (/\ call.fn = "main"
   /\ upc # "main"
   /\ \E k \in REQUIRED_ENV : call.environ.required[k] \in {"unset", ""}) =>
    /\ upc = "exited"
    /\ outcome = "exit 1"
    /\ trace = <<>>
    /\ file = NoRecords /\ transcripts = {} /\ summary_file = NoSummary
    /\ summary_emails = 0
    /\ \A c \in Channels, v \in Videos : notified[c][v] = 0

\* main has exited with only GMAIL_USER set to the empty string
C11_Witness ==
  /\ upc = "exited"
  /\ outcome = "exit 1"
  /\ call.fn = "main"
  /\ call.environ.required["GMAIL_USER"] = ""
  /\ \A k \in REQUIRED_ENV \ {"GMAIL_USER"} : call.environ.required[k] = "set"

\* C12 (as claimed): in GET_LATEST mode, when process_channel has ended for a
\* channel with uploads, exactly the most recent video was taken up, whether
\* or not its id is in the processed list, its notification was sent, and no
\* record was written to processed_videos.json.
C12_GetLatestHandlesNewest ==
  (ChannelFinished /\ config.get_latest /\ latest_videos # <<>>) =>
    LET ch == LastResult.channel_id
        v == latest_videos[1]
    IN /\ Len(latest_videos) = LATEST_MAX_RESULTS
       /\ Entered(ch) = {v}
       /\ Pos("send_video_notification", ch, v) # {}
       /\ \A w \in Videos : Pos("mark_video_processed", ch, w) = {}

\* C13 (as claimed): a call of mark_video_processed leaves every record that
\* processed_videos.json held before it in place and unmodified, for every
\* channel, also when the file could not be read or parsed during the call.
C13_RecordsKept ==
  (upc = "marked") =>
    \A ch \in Channels :
      /\ Len(file[ch]) >= Len(call.before[ch])
      /\ SubSeq(file[ch], 1, Len(call.before[ch])) = call.before[ch]

\* C14: TranscriptFetcher.fetch_transcript and DownSubFetcher.fetch_transcript
\* never raise, whatever the libraries and HTTP calls under them do: each
\* returns a pair, and the transcript is None exactly when the language code
\* is None.
C14_FetchersNeverRaise ==
  (/\ upc = "returned"
   /\ call.fn \in {"TranscriptFetcher.fetch_transcript",
                   "DownSubFetcher.fetch_transcript"}) =>
    /\ outcome.raised = "none"
    /\ (outcome.transcript = "None") <=> (outcome.language = "None")

\* transcripts are disabled and yt-dlp raises: fetch_transcript has returned
\* (None, None)
C14_Witness ==
  /\ upc = "returned"
  /\ call.fn = "TranscriptFetcher.fetch_transcript"
  /\ call.listing = "TranscriptsDisabled"
  /\ call.ytdlp = "raise"
  /\ trace = <<"list_transcripts", "_fetch_with_ytdlp">>
  /\ outcome.raised = "none"
  /\ outcome.transcript = "None"
  /\ outcome.language = "None"

\* C15 (as claimed): generate_summary returns the generated text when an
\* attempt produced text, and None in every other case: no transcript, a
\* blocked prompt, or empty responses or errors on every attempt; so that
\* process_channel puts its "Unable to generate summary" text in exactly
\* these cases.
C15_NoneWhenFailed ==
  (spc = "done") =>
    LET succeeded == calls >= 1 /\ script[calls - 1] = "text"
    IN /\ succeeded => summary = "ai"
       /\ ~succeeded => summary = "None"

\* C16 (as claimed): when the transcripts were listed and the chosen one
\* fetched, fetch_transcript returns a manual transcript in the first of en,
\* en-US, en-GB that has one; otherwise a generated transcript in the first of
\* them that has one, with language code '<lang>-auto'; otherwise the first
\* transcript of the list; and (None, None) only when the list is empty.
C16_LanguagePreference ==
  (/\ upc = "returned"
   /\ call.fn = "TranscriptFetcher.fetch_transcript"
   /\ call.listing = "ok"
   /\ call.fetch \in {"data", "no text"}) =>
    LET inManual(lang) == \E i \in 1..Len(call.manual) : call.manual[i] = lang
        inGenerated(lang) ==
          \E i \in 1..Len(call.generated) : call.generated[i] = lang
        manual == SelectSeq(<<"en", "en-US", "en-GB">>, inManual)
        generated == SelectSeq(<<"en", "en-US", "en-GB">>, inGenerated)
    IN IF manual # <<>>
       THEN /\ outcome.language = Head(manual)
            /\ outcome.track \in 1..Len(call.manual)
            /\ call.manual[outcome.track] = Head(manual)
       ELSE IF generated # <<>>
       THEN /\ outcome.language = Auto(Head(generated))
            /\ outcome.track - Len(call.manual) \in 1..Len(call.generated)
            /\ call.generated[outcome.track - Len(call.manual)] = Head(generated)
       ELSE IF call.manual \o call.generated # <<>>
       THEN /\ outcome.track = 1
            /\ outcome.language = (call.manual \o call.generated)[1]
       ELSE /\ outcome.transcript = "None"
            /\ outcome.language = "None"

\* C17 (as claimed): fetch_transcript tries yt-dlp when transcripts are
\* disabled or an unexpected error occurs in the transcript API, and returns
\* (None, None) without trying yt-dlp when the video is unavailable or YouTube
\* reports too many requests, with and without TooManyRequests in the library.
C17_YtdlpFallback ==
  (upc = "returned" /\ call.fn = "TranscriptFetcher.fetch_transcript") =>
    LET exc == IF call.listing # "ok" THEN call.listing
               ELSE IF \E i \in 1..Len(trace) : trace[i] = "fetch"
                    THEN call.fetch ELSE "none"
        triedYtdlp == \E i \in 1..Len(trace) : trace[i] = "_fetch_with_ytdlp"
    IN /\ exc \in {"TranscriptsDisabled", "OtherError"} => triedYtdlp
       /\ exc \in {"VideoUnavailable", "TooManyRequests", "RequestBlocked"} =>
            /\ ~triedYtdlp
            /\ outcome.transcript = "None"
            /\ outcome.language = "None"

\* C18 (as claimed): _get_subtitle_info returns the first non-empty track
\* list among direct access, API-guided access (which finds nothing) and web
\* scraping, and None only when all of them yield nothing, whatever the
\* initial API check returned.
C18_FirstNonEmptyStrategy ==
  (upc = "returned" /\ call.fn = "_get_subtitle_info") =>
    /\ call.direct.some => outcome = call.direct
    /\ (~call.direct.some /\ call.scrape.some) => outcome = call.scrape
    /\ ~outcome.some => (~call.direct.some /\ ~call.scrape.some)

\* C19: _select_best_subtitle returns None exactly when the list is empty;
\* otherwise a track of the list: the first one matching the highest-ranked
\* preference that some track matches, in the order English manual, English
\* auto-generated, Chinese manual, Chinese auto-generated; the first track of
\* the list when no track matches a preference.
C19_BestSubtitle ==
  (upc = "returned" /\ call.fn = "_select_best_subtitle") =>
    LET subs == call.subtitles
        rank(t) == CASE t.language = "en" /\ ~t.auto_generated -> 1
                     [] t.language = "en" /\ t.auto_generated -> 2
                     [] t.language = "zh" /\ ~t.auto_generated -> 3
                     [] t.language = "zh" /\ t.auto_generated -> 4
                     [] OTHER -> 5
    IN /\ ~outcome.some <=> subs = <<>>
       /\ outcome.some =>
            \E i \in 1..Len(subs) :
              /\ outcome.value = subs[i]
              /\ \A j \in 1..Len(subs) : rank(subs[j]) >= rank(subs[i])
              /\ \A j \in 1..(i - 1) : rank(subs[j]) > rank(subs[i])
                                        \/ rank(subs[i]) = 5
              /\ rank(subs[i]) = 5 => i = 1

\* a Chinese auto-generated track comes before an English manual one, and the
\* English manual one was returned
C19_Witness ==
  /\ upc = "returned"
  /\ call.fn = "_select_best_subtitle"
  /\ Len(call.subtitles) = 2
  /\ call.subtitles[1].language = "zh" /\ call.subtitles[1].auto_generated
  /\ call.subtitles[2].language = "en" /\ ~call.subtitles[2].auto_generated
  /\ outcome.some
  /\ outcome.value = call.subtitles[2]

\* C20 (as claimed): after mark_video_processed(channel, video_id, info,
\* summary, email_sent) has returned, get_processed_videos(channel) holds a
\* record with that video_id, email_sent as given and the first 1000
\* characters of the summary, and the lists of the other channels are as
\* before.
C20_RecordWritten ==
  (upc = "read") =>
    /\ \A ch \in Channels \ {call.channel_id} : file[ch] = call.before[ch]
    /\ outcome.channel_id = call.channel_id =>
         \E i \in 1..Len(outcome.videos) :
           /\ outcome.videos[i].video_id = call.video_id
           /\ outcome.videos[i].email_sent = call.email_sent
           /\ outcome.videos[i].summary = SubSeq(call.summary, 1,
                IF Len(call.summary) < 1000 THEN Len(call.summary) ELSE 1000)
    /\ outcome.channel_id # call.channel_id =>
         outcome.videos = SortDesc(call.before[outcome.channel_id])

\* what get_transcript has just returned for the pair that the latest call of
\* save_transcript, which returned normally, was for
ReadBack ==
  /\ upc = "read"
  /\ call.fn = "save_transcript"
  /\ call.run = "ok"
  /\ outcome.channel_id = call.channel_id
  /\ outcome.video_id = call.video_id

\* the document returned holds what the latest save_transcript was given
SavedValues ==
  /\ outcome.document.some
  /\ outcome.document.value.transcript = call.transcript
  /\ outcome.document.value.language = call.language
  /\ outcome.document.value.video_id = call.video_id
  /\ outcome.document.value.channel_id = call.channel_id

\* a call of save_transcript has just ended and the files of all other
\* (channel, video) pairs are as they were before it
OthersUntouched ==
  upc \in {"saved", "raised"} =>
    \A p \in Channels \X Videos :
      p # <<call.channel_id, call.video_id>> =>
        transcript_files[p] = call.before[p]

\* get_transcript returns None for a pair save_transcript was never called for
NoneWhenNeverSaved ==
  (/\ upc = "read"
   /\ ~ \E i \in Saved :
         trace[i].arg = <<outcome.channel_id, outcome.video_id>>)
    => ~outcome.document.some

ListingDone == upc = "returned" /\ call.fn = "get_latest_videos"

\* the items of the response that a returned video may come from
Admissible(c) ==
  {playlist_response(c)[i] : i \in
     {j \in 1..Len(playlist_response(c)) :
        /\ playlist_response(c)[j].details
        /\ c.published_after.some =>
             playlist_response(c)[j].published_at > c.published_after.value}}

\* at most max_results videos, newest first, none of them an item without
\* details or an item not published strictly after published_after; and
\* nothing is raised
ListingShape ==
  /\ outcome.raised = "none"
  /\ Len(outcome.videos) <= call.max_results
  /\ \A i, j \in 1..Len(outcome.videos) :
       i < j => outcome.videos[i].published_at >= outcome.videos[j].published_at
  /\ \A i \in 1..Len(outcome.videos) :
       \E item \in Admissible(call) : VideoOf(item) = outcome.videos[i]

\* a call of videos().list for an item of the response failed
DetailsCallFailed(c) ==
  \E i \in 1..Len(playlist_response(c)) : ~playlist_response(c)[i].details

\* C22 (as claimed): get_latest_videos returns at most max_results videos,
\* newest first, without the items whose details could not be fetched and,
\* when published_after is given, without the items not published strictly
\* after it; it never raises, and returns [] when the channel is not found
\* or any API call fails.
C22_EmptyOnAnyFailure ==
  ListingDone =>
    /\ ListingShape
    /\ (\/ call.channel # "found"
        \/ call.playlist_call # "ok"
        \/ DetailsCallFailed(call)) => outcome.videos = <<>>

\* C22 (amended): the same, with [] when the channel is not found or the
\* channels or playlistItems call fails; a failed videos call only leaves
\* out its item, and every other item of the response published after
\* published_after is returned unless something else is raised on the way.
C22_LatestVideos ==
  ListingDone =>
    /\ ListingShape
    /\ (call.channel # "found" \/ call.playlist_call # "ok")
         => outcome.videos = <<>>
    /\ (call.channel = "found" /\ call.playlist_call = "ok"
        /\ RaisedInListing(call) = "none")
         => \A item \in Admissible(call) :
              \E i \in 1..Len(outcome.videos) : outcome.videos[i] = VideoOf(item)

\* published_after is given, the videos call failed for one item of the
\* response, and the other item, published later, is returned
C22_Witness ==
  /\ ListingDone
  /\ call.channel = "found" /\ call.playlist_call = "ok"
  /\ call.published_after.some /\ call.published_after.aware
  /\ DetailsCallFailed(call)
  /\ Len(outcome.videos) = 1
  /\ outcome.videos[1].published_at > call.published_after.value
  /\ outcome.raised = "none"

\* main is past the choice of the channels, with a complete configuration
Selected ==
  /\ call.fn = "main"
  /\ upc \notin {"main", "init_components", "resolve_channels"}
  /\ missing_keys(call.environ) = {}

\* the calls of process_channel made so far
ProcessCalls == SelectSeq(trace, LAMBDA e : e.op = "process_channel")

HasEvent(op) == \E i \in 1..Len(trace) : trace[i].op = op

\* the lookup of the username gave a channel id
TargetResolved ==
  \E i \in 1..Len(trace) :
    trace[i].op = "target_channel_id" /\ trace[i].arg = target_channel_id

\* the loop over the channels is over
Monitored == upc = "returned" /\ ~call.environ.TEST_MODE

\* one call of process_channel for each entry that is not blank, in order
CallsFor(entries) ==
  LET named == SelectSeq(entries, LAMBDA e : e # Blank /\ e # "")
  IN [k \in 1..Len(named) |-> Did("process_channel", named[k])]

ChecksMade == SelectSeq(trace, LAMBDA e : e.op \in Range(TestChecks))

\* test_components has ended
Tested ==
  /\ call.fn = "main"
  /\ call.environ.TEST_MODE
  /\ upc \in {"returned", "exited"}
  /\ ChecksMade # <<>>

\* what was written to data/test_results.json
WrittenResults ==
  SelectSeq(trace, LAMBDA e : e.op = "write data/test_results.json")

\* all that main does in test mode: the components are made (DataStore makes
\* its directories), the username is looked up, the checks run and their
\* results are written
TestModeDoes ==
  {"construct", "mkdir", "get_channel_id_by_username", "target_channel_id",
   "channels_to_monitor", "write data/test_results.json"}
    \cup Range(TestChecks)

\* C24: in test mode no channel is processed, no notification or summary
\* email is sent and the processed list is not modified; test_components
\* runs all six checks (YouTube API, transcript API, DownSub, Gemini, Gmail
\* SMTP, data store) even when an earlier one fails or raises, writes the
\* results to data/test_results.json, and exits with status 1 unless every
\* check succeeded.
C24_TestMode ==
  /\ (call.fn = "main" /\ call.environ.TEST_MODE) =>
       /\ ProcessCalls = <<>>
       /\ ~HasEvent("send_summary_email")
       /\ \A i \in 1..Len(trace) : trace[i].op \in TestModeDoes
  /\ Tested =>
       /\ Len(ChecksMade) = Len(TestChecks)
       /\ \A k \in 1..Len(TestChecks) : ChecksMade[k].op = TestChecks[k]
       /\ Len(WrittenResults) = 1
       /\ \A k \in 1..Len(TestChecks) :
            WrittenResults[1].arg.results[TestChecks[k]]
              = (ChecksMade[k].arg = "True")
       /\ (outcome = "exit 1") =
            (\E k \in 1..Len(TestChecks) : ChecksMade[k].arg # "True")
       /\ (outcome # "exit 1") => (upc = "returned" /\ outcome = "return")

\* the first check raised, the third gave False, the other four succeeded:
\* all six were made, the results are written and the status is 1
C24_Witness ==
  /\ Tested
  /\ Len(ChecksMade) = Len(TestChecks)
  /\ ChecksMade[1].arg = "raises"
  /\ ChecksMade[3].arg = "False"
  /\ \A k \in {2, 4, 5, 6} : ChecksMade[k].arg = "True"
  /\ Len(WrittenResults) = 1
  /\ outcome = "exit 1"

\* C25 (as claimed): for a video taken up with DownSub enabled and DownSub
\* giving no transcript, DownSub is called once and the fallback call goes to
\* TranscriptFetcher (transcript_source, set right after the call that gave
\* the transcript, names the fetcher that was called); with USE_DOWNSUB false
\* DownSub is never called.
C25_FallbackToTranscriptFetcher ==
  HandledOne =>
    LET ch == LastResult.channel_id
        v == LastVideo
    IN /\ (config.use_downsub /\ oracle.downsub # "text") =>
            /\ Cardinality(Pos("fetch_downsub", ch, v)) = 1
            /\ Pos("fetch_api", ch, v) # {}
            /\ \A i \in Pos("fetch_downsub", ch, v), j \in Pos("fetch_api", ch, v) :
                 i < j
       /\ ~config.use_downsub => Pos("fetch_downsub", ch, v) = {}

\* no call of mark_video_processed is in progress
NoCallInProgress ==
  \A r \in OverlappingRuns : run_state[r].at # "mark_video_processed"

====
